---- MODULE Spec2Model ----
(***************************************************************************)
(* A model of two parts of the kernel's BPF tracing support:               *)
(*                                                                         *)
(*   kernel/trace/bpf_trace.c  trace_call_bpf and its per-CPU recursion    *)
(*                             guard bpf_prog_active (the dispatcher);     *)
(*   kernel/bpf/stackmap.c     the stack trace map: bpf_get_stackid,       *)
(*                             lookup, delete and stack_map_free, with the *)
(*                             RCU discipline they rely on.                *)
(*                                                                         *)
(*   kernel/trace/bpf_trace.c  perf_event_attach_bpf_prog and              *)
(*                             perf_event_detach_bpf_prog, bpf_trace_printk *)
(*                             and bpf_perf_event_output.                   *)
(*                                                                         *)
(* SpecDispatch is the dispatcher alone, SpecStore the stack map under     *)
(* concurrent callers, SpecSerial the stack map with one call at a time,   *)
(* SpecAttach programs attached and detached while probes fire,            *)
(* SpecPrintk and SpecPerfOutput one call of the helper at a time.         *)
(***************************************************************************)
EXTENDS Integers, Sequences, FiniteSets, TLC

VARIABLES
    bpf_prog_active,  \* per-CPU int, bpf_trace.c:16
    stack,            \* per CPU: the invocations of trace_call_bpf in flight, innermost last
    prog_array,       \* call->prog_array of the one instrumentation point: an array's address, 0 for NULL
    arrays,           \* the memory of struct bpf_prog_array objects, by address
    agp,              \* per array handed to kfree_rcu: the read-side sections it waits for
    lim,              \* the CPUs probes fire on and how deep firings nest
    event_prog,       \* event->prog of each perf event of the instrumentation point
    mutex,            \* the owner of bpf_event_mutex, "none" when free
    task,             \* per caller of attach or detach: its position and its locals
    buckets,          \* smap->buckets[]: an entry's address, or 0 for NULL
    heap,             \* the memory of struct stack_map_bucket objects, by address
    gp,               \* per entry handed to kfree_rcu: the read-side sections it waits for
    th,               \* per caller: the call in flight, its position and its locals
    smap,             \* the map's life: in use, or where stack_map_free stands
    serial,           \* TRUE when callers take turns (one call at a time)
    prev,             \* the last call completed, recorded when callers take turns
    pk,               \* the call of bpf_trace_printk in flight: its position and locals
    pe                \* the perf event array, and the call of bpf_perf_event_output in flight

dvars == <<bpf_prog_active, stack, prog_array, arrays, agp, lim>>

avars == <<event_prog, mutex, task>>

svars == <<buckets, heap, gp, th, smap, serial, prev>>

hvars == <<pk, pe>>

vars == <<bpf_prog_active, stack, prog_array, arrays, agp, lim,
          event_prog, mutex, task,
          buckets, heap, gp, th, smap, serial, prev, pk, pe>>

----------------------------------------------------------------------------
(* Dispatcher: trace_call_bpf, bpf_trace.c:32-74                            *)

\* Execution units. The guard is per-CPU state, so two CPUs show every
\* interaction there is between units.
Cpus == {0, 1}

\* How many invocations of trace_call_bpf may be nested on one CPU (an
\* interrupt, an NMI or a probe hit inside a running program nests a firing).
MaxNest == 2

Progs == {"p1", "p2"}

\* The struct bpf_prog_array objects memory has room for.
MaxArrays == 3

ArrAddrs == 1 .. MaxArrays

\* The placeholder program bpf_prog_array_delete_safe leaves in the slot of
\* a deleted program: it does nothing and returns 1.
Dummy == "dummy"

\* The end of an array's progs[]: a NULL element.
NoProg == "NULL"

FreeArray == [st |-> "free", progs |-> <<>>]

\* call->prog_array before any firing: a NULL pointer, or an array of
\* attached programs.
ProgArrays ==
    { [null |-> TRUE,  progs |-> <<>>],
      [null |-> FALSE, progs |-> <<>>],
      [null |-> FALSE, progs |-> <<"p1">>],
      [null |-> FALSE, progs |-> <<"p1", "p2">>] }

\* What one BPF program may return (0: filter the event out, 1: store it,
\* other values are reserved), bpf_trace.c:26-30.
ProgRets == 0 .. 2

\* _ret &= func(prog, ctx) for _ret in {0, 1}.
AndRet(ret, r) == ret * (r % 2)

\* The guard's admission test with every firing admitted.
AdmittedAlways(v) == v >= 1

\* __this_cpu_inc_return(bpf_prog_active) != 1 sends the firing to "out".
Admitted(v) == v = 1

\* The guard's release skipped on the filtered path.
ReleaseAdmittedOnly(v, f) == IF f.admitted THEN v - 1 ELSE v

\* __this_cpu_dec(bpf_prog_active) at the label out, on every path.
Release(v, f) == v - 1

\* The entry of trace_call_bpf without the in_nmi() test.
EntryNoNmiTest(nmi) == "inc"

\* if (in_nmi()) return 1, lines 36-37: in NMI context the invocation goes
\* straight to its return, otherwise on to preempt_disable() and the guard.
Entry(nmi) == IF nmi THEN "ret" ELSE "inc"

\* What the kprobe handler makes of the value returned, lines 26-30: 0 is
\* "event is filtered out", 1 and the reserved values are "store kprobe event
\* into ring buffer".
Recorded(ret) == ret # 0

Frames(c) == 1 .. Len(stack[c])

\* The firings inside the read-side section of BPF_PROG_RUN_ARRAY_CHECK.
InArraySection ==
    {<<c, k>> \in Cpus \X (1 .. MaxNest + 1) :
        k \in Frames(c) /\ stack[c][k].pc = "run"}

\* The grace period of an array: every read-side section that was open when
\* it was handed over has ended.
ArrGraceOver(w) == w = {}

\* The RCU callbacks on arrays, run as soon as they may.
ArrReclaim(h, g) ==
    [a \in ArrAddrs |-> IF h[a].st = "rcu" /\ ArrGraceOver(g[a])
                        THEN FreeArray ELSE h[a]]

\* rcu_read_unlock() of the firing with frame id: nothing waits for it any
\* more.
ArrUnlock(g, id) == [a \in ArrAddrs |-> g[a] \ {id}]

\* READ_ONCE(*_prog) of element i of array a. Freed memory, and what a
\* NULL array pointer leads to, may hold anything.
ReadProg(a, i) ==
    IF a = 0 \/ arrays[a].st = "free" THEN Progs \cup {Dummy, NoProg}
    ELSE IF i <= Len(arrays[a].progs) THEN {arrays[a].progs[i]}
    ELSE {NoProg}

\* The array the loop reads its next element from, were call->prog_array
\* read again at each turn.
ArrReread(f) == prog_array

\* The array the loop reads its next element from: _array, the pointer that
\* rcu_dereference returned when the firing began.
ArrOf(f) == f.arr

\* What a program may return; the placeholder returns 1.
RetsOf(p) == IF p = Dummy THEN {1} ELSE ProgRets

Top(c) == stack[c][Len(stack[c])]

SetTop(c, f) == [stack EXCEPT ![c][Len(stack[c])] = f]

\* A firing on CPU c. In NMI context it returns 1 at once; otherwise it
\* disables preemption and goes on to the guard.
\* found and busy record what the firing met when it began.
Fire(c) ==
    /\ c \in lim.cpus
    /\ Len(stack[c]) < lim.nest
    /\ \E nmi \in BOOLEAN :
         stack' = [stack EXCEPT ![c] = Append(@,
                     [pc       |-> Entry(nmi),
                      nmi      |-> nmi,
                      busy     |-> Len(stack[c]) > 0,
                      found    |-> bpf_prog_active[c],
                      marked   |-> FALSE,
                      admitted |-> FALSE,
                      arr      |-> 0,
                      snap     |-> <<>>,
                      prog     |-> NoProg,
                      i        |-> 1,
                      ran      |-> 0,
                      progs_run |-> <<>>,
                      ret      |-> IF nmi THEN 1 ELSE 0])]
    /\ UNCHANGED <<bpf_prog_active, prog_array, arrays, agp, lim, avars>>

\* __this_cpu_inc_return(bpf_prog_active) and the test of its result.
Guard(c) ==
    /\ Len(stack[c]) > 0
    /\ Top(c).pc = "inc"
    /\ LET v == bpf_prog_active[c] + 1
       IN /\ bpf_prog_active' = [bpf_prog_active EXCEPT ![c] = v]
          /\ stack' = SetTop(c, [Top(c) EXCEPT
                         !.marked = TRUE,
                         !.admitted = Admitted(v),
                         !.ret = 0,
                         !.pc = IF Admitted(v) THEN "deref" ELSE "out"])
    /\ UNCHANGED <<prog_array, arrays, agp, lim, avars>>

\* BPF_PROG_RUN_ARRAY_CHECK: _ret = 1, rcu_read_lock(), read call->prog_array
\* once, bail out when it is NULL, otherwise read its first element; an
\* array without programs ends the loop at once. snap is what the array held
\* when the firing read the pointer.
Deref(c) ==
    /\ Len(stack[c]) > 0
    /\ Top(c).pc = "deref"
    /\ IF prog_array = 0
       THEN stack' = SetTop(c, [Top(c) EXCEPT !.arr = 0, !.ret = 1, !.i = 1,
                                               !.pc = "out"])
       ELSE \E p \in ReadProg(prog_array, 1) :
              stack' = SetTop(c, [Top(c) EXCEPT
                          !.arr = prog_array,
                          !.snap = arrays[prog_array].progs,
                          !.prog = p,
                          !.ret = 1,
                          !.i = 1,
                          !.pc = IF p = NoProg THEN "out" ELSE "run"])
    /\ UNCHANGED <<bpf_prog_active, prog_array, arrays, agp, lim, avars>>

\* BPF_PROG_RUN_ARRAY_CHECK: _ret &= func(__prog, ctx) for the program read,
\* then READ_ONCE of the next element; a NULL element ends the loop, and
\* rcu_read_unlock() ends the firing's read-side section.
RunProg(c) ==
    /\ Len(stack[c]) > 0
    /\ Top(c).pc = "run"
    /\ \E r \in RetsOf(Top(c).prog) :
       \E p \in ReadProg(ArrOf(Top(c)), Top(c).i + 1) :
         /\ stack' = SetTop(c, [Top(c) EXCEPT
                         !.ret = AndRet(@, r),
                         !.ran = @ + 1,
                         !.progs_run = Append(@, Top(c).prog),
                         !.i = @ + 1,
                         !.prog = p,
                         !.pc = IF p = NoProg THEN "out" ELSE "run"])
         /\ IF p = NoProg
            THEN /\ agp' = ArrUnlock(agp, <<c, Len(stack[c])>>)
                 /\ arrays' = ArrReclaim(arrays, agp')
            ELSE UNCHANGED <<arrays, agp>>
    /\ UNCHANGED <<bpf_prog_active, prog_array, lim, avars>>

\* out: __this_cpu_dec(bpf_prog_active); preempt_enable().
Exit(c) ==
    /\ Len(stack[c]) > 0
    /\ Top(c).pc = "out"
    /\ bpf_prog_active' =
         [bpf_prog_active EXCEPT ![c] = Release(@, Top(c))]
    /\ stack' = SetTop(c, [Top(c) EXCEPT !.marked = FALSE, !.pc = "ret"])
    /\ UNCHANGED <<prog_array, arrays, agp, lim, avars>>

\* return ret: the invocation leaves the CPU.
Return(c) ==
    /\ Len(stack[c]) > 0
    /\ Top(c).pc = "ret"
    /\ stack' = [stack EXCEPT ![c] = SubSeq(@, 1, Len(@) - 1)]
    /\ UNCHANGED <<bpf_prog_active, prog_array, arrays, agp, lim, avars>>

----------------------------------------------------------------------------
(* Stack trace map: kernel/bpf/stackmap.c                                   *)

\* smap->n_buckets: roundup_pow_of_two(attr->max_entries), a power of two.
n_buckets == 2

\* max_depth = map->value_size / 8: the frames one entry holds.
max_depth == 2

\* Instruction addresses are 1 .. MaxFrame; 0 is the padding.
MaxFrame == 2

\* The struct stack_map_bucket objects memory has room for.
MaxEntries == 2

\* The values of the u32 digest.
HashSpace == 4

\* Error numbers, returned negated.
ENOENT == 2

E2BIG == 7

ENOMEM == 12

EFAULT == 14

EEXIST == 17

EINVAL == 22

\* The callers that may be inside the map's operations at the same time
\* (BPF programs on two CPUs, or system calls).
Threads == {"t1", "t2"}

\* The caller that makes the calls when there is one call at a time.
SerialCaller == "t1"

Addrs == 1 .. MaxEntries

Frame == 1 .. MaxFrame

\* What get_perf_callchain() leaves after init_nr: 0 .. max_depth frames.
Callchains == UNION { [1 .. n -> Frame] : n \in 0 .. max_depth }

\* flags & BPF_F_SKIP_FIELD_MASK, as far as it matters here.
Skips == 0 .. 1

RECURSIVE Mix(_, _)
Mix(h, ips) ==
    IF ips = <<>> THEN h
    ELSE Mix((h * 3 + Head(ips)) % HashSpace, Tail(ips))

\* jhash2((u32 *)ips, trace_len / sizeof(u32), 0): a digest of the frames'
\* bytes and their number. Distinct traces may share a digest.
jhash2(ips) == Mix(Len(ips) % HashSpace, ips)

\* The bucket index taken from the digest's high bits.
BucketOfHighBits(hash) == (hash \div n_buckets) % n_buckets

\* id = hash & (smap->n_buckets - 1), n_buckets a power of two.
BucketOf(hash) == hash % n_buckets

\* What memory holds before it is written: not a frame, not the padding.
Uninit == -1

\* Lines 140-141 without the memset: the rest of ip[] stays as kmalloc
\* returned it.
PaddedNoMemset(ips) ==
    [k \in 1 .. max_depth |-> IF k <= Len(ips) THEN ips[k] ELSE Uninit]

\* memcpy(new_bucket->ip, ips, trace_len) followed by the memset of the rest
\* of the value to 0, lines 140-141.
Padded(ips) == [k \in 1 .. max_depth |-> IF k <= Len(ips) THEN ips[k] ELSE 0]

\* Memory that holds no initialised entry.
Poison == [hash |-> 0, nr |-> 0, ip |-> [k \in 1 .. max_depth |-> Uninit]]

Content(e) == [hash |-> heap[e].hash, nr |-> heap[e].nr, ip |-> heap[e].ip]

Idle ==
    [pc |-> "idle", op |-> "none", ips |-> <<>>, fast |-> FALSE,
     reuse |-> FALSE, key |-> 0, hash |-> 0, bucket |-> 0, new |-> 0,
     old |-> 0, ret |-> 0, allocd |-> FALSE, snap |-> Poison, buf |-> <<>>]

NoCall ==
    [op |-> "none", ips |-> <<>>, fast |-> FALSE, reuse |-> FALSE,
     key |-> 0, hash |-> 0, ret |-> 0, snap |-> Poison, allocd |-> FALSE]

\* The locals of a call that are still read after position c.pc; the others
\* are reset. With one call at a time every local is kept, for prev.
Locals(c) ==
    IF serial THEN c
    ELSE IF c.pc = "xchg"
    THEN [Idle EXCEPT !.pc = c.pc, !.op = c.op, !.key = c.key,
                      !.new = c.new, !.reuse = c.reuse]
    ELSE IF c.pc = "done" /\ c.op = "lookup"
    THEN [Idle EXCEPT !.pc = c.pc, !.op = c.op, !.key = c.key,
                      !.ret = c.ret, !.bucket = c.bucket, !.snap = c.snap,
                      !.buf = c.buf]
    ELSE IF c.pc = "done"
    THEN [Idle EXCEPT !.pc = c.pc, !.op = c.op, !.key = c.key,
                      !.ret = c.ret]
    ELSE c

\* The read-side sections open now: every caller inside an operation (a BPF
\* program runs under rcu_read_lock, and so does the system call path).
InSection == {t \in Threads : th[t].pc # "idle"}

\* An entry freed as soon as kfree_rcu is called.
NoGrace(w) == TRUE

\* The grace period of kfree_rcu: every read-side section that was open when
\* the entry was handed over has ended.
GraceOver(w) == w = {}

FreeCell == [st |-> "free", hash |-> Poison.hash, nr |-> Poison.nr,
             ip |-> Poison.ip]

\* The RCU callbacks: kfree() of every entry whose grace period is over. They
\* are taken to run as soon as they may, which is the earliest an entry can be
\* destroyed. Freed memory holds nothing.
Reclaim(h, g) ==
    [e \in Addrs |-> IF h[e].st = "rcu" /\ GraceOver(g[e])
                     THEN FreeCell ELSE h[e]]

\* kfree_rcu(e, rcu): e waits for the read-side sections open in state s.
KfreeRcu(h, e) == [h EXCEPT ![e].st = "rcu"]

Waits(g, e, s) == [g EXCEPT ![e] = s]

\* A caller may begin an operation while the map is in use (its refcnt is
\* not zero), and, when callers take turns, no other call is in flight.
MayBegin(t) ==
    /\ th[t].pc = "idle"
    /\ smap.pc = "live"
    /\ serial => (t = SerialCaller /\ \A u \in Threads : th[u].pc = "idle")

\* The test of lines 123-129 with the result of memcmp taken the wrong way.
MatchesInverted(c, b) ==
    /\ b # 0
    /\ heap[b].hash = c.hash
    /\ \/ c.fast
       \/ /\ heap[b].nr = Len(c.ips)
          /\ SubSeq(heap[b].ip, 1, Len(c.ips)) # c.ips

\* The test of lines 123-129 with BPF_F_FAST_STACK_CMP ignored.
MatchesByContent(c, b) ==
    /\ b # 0
    /\ heap[b].hash = c.hash
    /\ heap[b].nr = Len(c.ips)
    /\ SubSeq(heap[b].ip, 1, Len(c.ips)) = c.ips

\* Lines 123-129: the bucket read at line 121 already holds this trace.
Matches(c, b) ==
    /\ b # 0
    /\ heap[b].hash = c.hash
    /\ \/ c.fast
       \/ /\ heap[b].nr = Len(c.ips)
          /\ SubSeq(heap[b].ip, 1, Len(c.ips)) = c.ips

\* The test of lines 131-133 with BPF_F_REUSE_STACKID ignored.
ConflictAlways(c, b) == b # 0

\* Lines 131-133: an occupied bucket is a conflict unless
\* BPF_F_REUSE_STACKID is set.
Conflict(c, b) == b # 0 /\ ~c.reuse

\* An entry taken out of the table and never handed to kfree_rcu.
HandOverNever(old) == FALSE

\* if (old_bucket) kfree_rcu(old_bucket, rcu), lines 146-147 and 195-196.
HandOver(old) == old # 0

FreeAddrs == {e \in Addrs : heap[e].st = "free"}

Lowest(S) == CHOOSE e \in S : \A f \in S : e <= f

\* The table with the NULL that kmalloc returned exchanged into the bucket.
NullExchanged(b, key) == [b EXCEPT ![key] = 0]

\* if (unlikely(!new_bucket)) return -ENOMEM, lines 137-138: the call returns
\* before the xchg of line 145, the table as it was.
TableOnNoMem(b, key) == b

\* The arguments of a call of bpf_get_stackid with what befalls it.
InsertInputs ==
    [cs : {<<>>}, skip : {0}, fast : BOOLEAN, reuse : BOOLEAN,
     fault : {"flags", "fetch"}]
    \cup
    [cs : Callchains, skip : Skips, fast : BOOLEAN, reuse : BOOLEAN,
     fault : {"none", "nomem"}]

\* bpf_get_stackid, lines 83-143, up to the new entry complete and still
\* private: the flags check, the capture, the skip, the digest, the bucket
\* index, bucket = rcu_dereference(smap->buckets[id]); the index returned when
\* that bucket matches, -EEXIST on a conflict; otherwise kmalloc(...,
\* GFP_ATOMIC | __GFP_NOWARN) and the new entry's ip[], padding, hash and nr.
\* The fault of a call: "flags" is a bit outside the four known flags,
\* "fetch" is get_perf_callchain() returning NULL, "nomem" is kmalloc failing,
\* which it may at any time and must when memory is used up.
\* The reads of bucket->hash, nr and ip[] (123-127) are taken together with
\* the read of the bucket pointer (121): the caller is inside a read-side
\* section, and LookupCopy is the reader whose reads of an entry are steps of
\* their own. The xchg of line 145 is a later step, so other callers act
\* between the read of the bucket and its replacement.
BeginInsert(t) ==
    /\ MayBegin(t)
    /\ \E in \in InsertInputs :
         LET cs == in.cs
             skip == in.skip
             fast == in.fast
             reuse == in.reuse
             ips == SubSeq(cs, skip + 1, Len(cs))
             id == BucketOf(jhash2(ips))
             b == buckets[id]
             c0 == [Idle EXCEPT !.op = "insert", !.fast = fast,
                                !.reuse = reuse, !.pc = "done"]
             c1 == [c0 EXCEPT !.ips = ips, !.hash = jhash2(ips), !.key = id,
                              !.bucket = b,
                              !.snap = IF b = 0 THEN Poison ELSE Content(b)]
         IN IF in.fault = "flags"
            THEN /\ th' = [th EXCEPT ![t] = Locals([c0 EXCEPT !.ret = -EINVAL])]
                 /\ heap' = heap
            ELSE IF in.fault = "fetch" \/ Len(cs) <= skip
            THEN /\ th' = [th EXCEPT ![t] = Locals([c0 EXCEPT !.ret = -EFAULT])]
                 /\ heap' = heap
            ELSE IF Matches(c1, b)
            THEN /\ th' = [th EXCEPT ![t] = Locals([c1 EXCEPT !.ret = id])]
                 /\ heap' = heap
            ELSE IF Conflict(c1, b)
            THEN /\ th' = [th EXCEPT ![t] = Locals([c1 EXCEPT !.ret = -EEXIST])]
                 /\ heap' = heap
            ELSE IF in.fault # "nomem" /\ FreeAddrs # {}
            THEN /\ heap' = [heap EXCEPT ![Lowest(FreeAddrs)] =
                       [st |-> "alloc", hash |-> jhash2(ips),
                        nr |-> Len(ips), ip |-> Padded(ips)]]
                 /\ th' = [th EXCEPT ![t] =
                       Locals([c1 EXCEPT !.new = Lowest(FreeAddrs),
                                         !.allocd = TRUE, !.pc = "xchg"])]
            ELSE /\ heap' = heap
                 /\ th' = [th EXCEPT ![t] = Locals([c1 EXCEPT !.ret = -ENOMEM])]
    /\ buckets' = IF th'[t].pc = "done" /\ th'[t].ret = -ENOMEM
                  THEN TableOnNoMem(buckets, th'[t].key) ELSE buckets
    /\ UNCHANGED <<gp, smap, serial, prev>>

\* old_bucket = xchg(&smap->buckets[id], new_bucket); if (old_bucket)
\* kfree_rcu(old_bucket, rcu); return id, lines 145-148. Only this caller
\* holds old_bucket between the two statements, so they are one step.
InsertXchg(t) ==
    /\ th[t].op = "insert" /\ th[t].pc = "xchg"
    /\ LET old == buckets[th[t].key]
       IN /\ buckets' = [buckets EXCEPT ![th[t].key] = th[t].new]
          /\ th' = [th EXCEPT ![t] =
                Locals([@ EXCEPT !.old = old, !.ret = th[t].key,
                                 !.pc = "done"])]
          /\ IF HandOver(old)
             THEN /\ gp' = Waits(gp, old, InSection)
                  /\ heap' = Reclaim(KfreeRcu(heap, old), gp')
             ELSE UNCHANGED <<heap, gp>>
    /\ UNCHANGED <<smap, serial, prev>>

\* stack_map_lookup_elem, lines 163-170: NULL for an index past the table;
\* otherwise bucket = rcu_dereference(smap->buckets[id]) and bucket ?
\* bucket->ip : NULL. ret is the entry whose ip[] is returned, 0 for NULL.
BeginLookup(t) ==
    /\ MayBegin(t)
    /\ \E key \in 0 .. n_buckets :
         LET c0 == [Idle EXCEPT !.op = "lookup", !.key = key]
         IN th' = [th EXCEPT ![t] = Locals(
              IF key >= n_buckets
              THEN [c0 EXCEPT !.pc = "done", !.ret = 0]
              ELSE IF buckets[key] = 0
              THEN [c0 EXCEPT !.pc = "done", !.ret = 0]
              ELSE [c0 EXCEPT !.pc = "copy", !.ret = buckets[key],
                              !.bucket = buckets[key],
                              !.snap = Content(buckets[key])])]
    /\ UNCHANGED <<buckets, heap, gp, smap, serial, prev>>

\* The value read through a pointer to the entry itself, not to its ip[].
ValueAtEntry(e, k) == IF k = 1 THEN heap[e].hash ELSE heap[e].ip[k - 1]

\* The k-th 8-byte word behind the pointer bucket->ip that lookup returns,
\* line 170.
ValueAt(e, k) == heap[e].ip[k]

\* The caller reads the value through the pointer it was given, one 8-byte
\* frame at a time, still inside its read-side section.
LookupCopy(t) ==
    /\ th[t].op = "lookup" /\ th[t].pc = "copy"
    /\ LET b == Append(th[t].buf, ValueAt(th[t].bucket, Len(th[t].buf) + 1))
       IN th' = [th EXCEPT ![t] =
             Locals([@ EXCEPT !.buf = b,
                              !.pc = IF Len(b) = max_depth
                                     THEN "done" ELSE "copy"])]
    /\ UNCHANGED <<buckets, heap, gp, smap, serial, prev>>

\* The table after delete's exchange, were the entry left in place.
KeepEntry(b, key) == b

\* What xchg(&smap->buckets[id], NULL) leaves in the table, line 194.
Cleared(b, key) == [b EXCEPT ![key] = 0]

\* stack_map_delete_elem, lines 187-200: -E2BIG for an index past the table;
\* otherwise old_bucket = xchg(&smap->buckets[id], NULL), then
\* kfree_rcu(old_bucket, rcu) and 0, or -ENOENT when the bucket was empty.
\* Only this caller holds old_bucket between the xchg and kfree_rcu.
DeleteElem(t) ==
    /\ MayBegin(t)
    /\ \E key \in 0 .. n_buckets :
         LET c0 == [Idle EXCEPT !.op = "delete", !.key = key, !.pc = "done"]
             old == IF key >= n_buckets THEN 0 ELSE buckets[key]
         IN IF key >= n_buckets
            THEN /\ th' = [th EXCEPT ![t] = Locals([c0 EXCEPT !.ret = -E2BIG])]
                 /\ UNCHANGED <<buckets, heap, gp>>
            ELSE /\ buckets' = Cleared(buckets, key)
                 /\ th' = [th EXCEPT ![t] =
                       Locals([c0 EXCEPT !.old = old,
                                 !.ret = IF old = 0 THEN -ENOENT ELSE 0])]
                 /\ IF HandOver(old)
                    THEN /\ gp' = Waits(gp, old, InSection \cup {t})
                         /\ heap' = Reclaim(KfreeRcu(heap, old), gp')
                    ELSE UNCHANGED <<heap, gp>>
    /\ UNCHANGED <<smap, serial, prev>>

CallOf(c) ==
    [op |-> c.op, ips |-> c.ips, fast |-> c.fast, reuse |-> c.reuse,
     key |-> c.key, hash |-> c.hash, ret |-> c.ret, snap |-> c.snap,
     allocd |-> c.allocd]

\* The operation returns and the caller's read-side section ends
\* (rcu_read_unlock): nothing waits for this caller any more.
Finish(t) ==
    /\ th[t].pc = "done"
    /\ th' = [th EXCEPT ![t] = Idle]
    /\ gp' = [e \in Addrs |-> gp[e] \ {t}]
    /\ heap' = Reclaim(heap, gp')
    /\ smap' = [smap EXCEPT !.wait = @ \ {t}]
    /\ prev' = IF serial THEN CallOf(th[t]) ELSE prev
    /\ UNCHANGED <<buckets, serial>>

\* map->refcnt reaches zero and stack_map_free is called: no operation begins
\* from now on; those in flight in read-side sections go on.
MapRelease ==
    /\ smap.pc = "live"
    /\ smap' = [smap EXCEPT !.pc = "sync", !.wait = InSection]
    /\ UNCHANGED <<buckets, heap, gp, th, serial, prev>>

\* stack_map_free without its synchronize_rcu().
NoSync(w) == TRUE

\* synchronize_rcu() returns once the sections open at its call have ended.
Synchronized(w) == w = {}

\* synchronize_rcu(), line 209.
FreeSync ==
    /\ smap.pc = "sync"
    /\ Synchronized(smap.wait)
    /\ smap' = [smap EXCEPT !.pc = "loop", !.i = 0, !.wait = {}]
    /\ UNCHANGED <<buckets, heap, gp, th, serial, prev>>

\* for (i = 0; i < smap->n_buckets; i++) if (smap->buckets[i])
\* kfree_rcu(smap->buckets[i], rcu), lines 211-213: one iteration.
FreeLoop ==
    /\ smap.pc = "loop"
    /\ smap.i < n_buckets
    /\ IF buckets[smap.i] # 0
       THEN /\ gp' = Waits(gp, buckets[smap.i], InSection)
            /\ heap' = Reclaim(KfreeRcu(heap, buckets[smap.i]), gp')
            /\ smap' = [smap EXCEPT !.i = @ + 1,
                                    !.released = @ \cup {buckets[smap.i]}]
       ELSE /\ smap' = [smap EXCEPT !.i = @ + 1]
            /\ UNCHANGED <<heap, gp>>
    /\ UNCHANGED <<buckets, th, serial, prev>>

\* kvfree(smap); put_callchain_buffers(), lines 214-215: the table is gone,
\* and nothing can be reached through it any more.
FreeSmap ==
    /\ smap.pc = "loop"
    /\ smap.i = n_buckets
    /\ smap' = [smap EXCEPT !.pc = "freed"]
    /\ UNCHANGED <<buckets, heap, gp, th, serial, prev>>

\* The map as stack_map_alloc leaves it: kzalloc'ed, every bucket NULL.
StoreInit ==
    /\ buckets = [i \in 0 .. (n_buckets - 1) |-> 0]
    /\ heap = [e \in Addrs |-> FreeCell]
    /\ gp = [e \in Addrs |-> {}]
    /\ th = [t \in Threads |-> Idle]
    /\ smap = [pc |-> "live", wait |-> {}, i |-> 0, released |-> {}]
    /\ prev = NoCall

StoreNext ==
    /\ \/ \E t \in Threads :
             \/ BeginInsert(t)
             \/ InsertXchg(t)
             \/ BeginLookup(t)
             \/ LookupCopy(t)
             \/ DeleteElem(t)
             \/ Finish(t)
       \/ MapRelease
       \/ FreeSync
       \/ FreeLoop
       \/ FreeSmap
    /\ UNCHANGED <<dvars, avars, hvars>>

----------------------------------------------------------------------------
(* Attaching and detaching programs: bpf_trace.c:490-547                    *)

\* The perf events opened on the one instrumentation point (event->tp_event).
Events == {"e1", "e2"}

\* The callers of perf_event_attach_bpf_prog and perf_event_detach_bpf_prog.
Tasks == {"k1", "k2"}

TaskIdle ==
    [pc |-> "idle", op |-> "none", ev |-> "none", prog |-> NoProg,
     old |-> 0, new |-> 0, sole |-> FALSE, ret |-> 0]

\* An array's programs as a set.
ProgsOf(progs) == {progs[i] : i \in 1 .. Len(progs)}

FreeArrs == {a \in ArrAddrs : arrays[a].st = "free"}

\* The old array's programs the copy keeps: all but the excluded one and
\* the placeholders.
Kept(progs, exclude) ==
    SelectSeq(progs, LAMBDA p : p # exclude /\ p # Dummy)

\* bpf_prog_array_copy(old_array, exclude_prog, include_prog, &new_array):
\* the outcomes it may have. A program already in the old array is not
\* included again (-EEXIST); the new array cannot always be allocated
\* (-ENOMEM); otherwise the new array holds the old entries without the
\* excluded program, then the included one. A copy that keeps nothing is an
\* array without programs, not NULL. On failure new_array is not written.
bpf_prog_array_copy(old, exclude, include) ==
    LET oldp == IF old = 0 THEN <<>> ELSE arrays[old].progs
        newp == Kept(oldp, exclude) \o
                (IF include = NoProg THEN <<>> ELSE <<include>>)
    IN  IF include # NoProg /\ include \in ProgsOf(oldp)
        THEN {[ret |-> -EEXIST, progs |-> oldp]}
        ELSE {[ret |-> -ENOMEM, progs |-> oldp]} \cup
             (IF FreeArrs = {} THEN {}
              ELSE {[ret |-> 0, progs |-> newp]})

\* bpf_prog_array_delete_safe(old_array, prog): the program's slot of the
\* array, which stays installed, is overwritten with the placeholder.
bpf_prog_array_delete_safe(progs, prog) ==
    [i \in 1 .. Len(progs) |-> IF progs[i] = prog THEN Dummy ELSE progs[i]]

\* bpf_prog_array_free(old_array): kfree_rcu of the array, if there is one;
\* it is freed once the read-side sections open now have ended.
bpf_prog_array_free(old) ==
    LET g == IF old = 0 THEN agp ELSE [agp EXCEPT ![old] = InArraySection]
        h == IF old = 0 THEN arrays ELSE [arrays EXCEPT ![old].st = "rcu"]
    IN  [agp |-> g, arrays |-> ArrReclaim(h, g)]

\* The program detach asks the copy to leave out, were it none.
ExcludedNone(e) == NoProg

\* exclude_prog of the copy in detach: event->prog.
Excluded(e) == event_prog[e]

\* The result of the copy taken for a success whatever it is.
CopyNeverFailed(ret) == FALSE

\* if (ret < 0): the copy failed.
CopyFailed(ret) == ret < 0

\* The address in new_array after the copy: the array it allocated, or,
\* not written by a failed copy, whatever the uninitialized local holds.
NewArrays(cp) ==
    IF cp.ret = 0
    THEN {CHOOSE a \in FreeArrs : \A b \in FreeArrs : a <= b}
    ELSE 0 .. MaxArrays

\* A mutex anyone may take at any time.
MutexIgnored(m) == TRUE

\* mutex_lock(&bpf_event_mutex) returns once nobody holds the mutex.
MutexFree(m) == m = "none"

\* A caller enters perf_event_attach_bpf_prog(event, prog) or
\* perf_event_detach_bpf_prog(event) and takes bpf_event_mutex.
TaskLock(t) ==
    /\ task[t].pc = "idle"
    /\ MutexFree(mutex)
    /\ mutex' = t
    /\ \E e \in Events :
          \/ \E p \in Progs :
                task' = [task EXCEPT ![t] =
                            [TaskIdle EXCEPT !.pc = "locked", !.op = "attach",
                                             !.ev = e, !.prog = p,
                                             !.ret = -EEXIST]]
          \/ task' = [task EXCEPT ![t] =
                         [TaskIdle EXCEPT !.pc = "locked", !.op = "detach",
                                          !.ev = e]]
    /\ UNCHANGED <<bpf_prog_active, stack, lim, prog_array, arrays, agp,
                   event_prog>>

\* perf_event_attach_bpf_prog, lines 501-508: an event that has a program
\* keeps it; otherwise copy the installed array, adding prog.
AttachCopy(t) ==
    /\ task[t].pc = "locked"
    /\ task[t].op = "attach"
    /\ IF event_prog[task[t].ev] # NoProg
       THEN /\ task' = [task EXCEPT ![t].pc = "unlock"]
            /\ UNCHANGED arrays
       ELSE \E cp \in bpf_prog_array_copy(prog_array, NoProg, task[t].prog) :
              IF CopyFailed(cp.ret)
              THEN /\ task' = [task EXCEPT ![t].pc = "unlock",
                                           ![t].ret = cp.ret]
                   /\ UNCHANGED arrays
              ELSE \E a \in NewArrays(cp) :
                     /\ task' = [task EXCEPT ![t].pc = "assign",
                                             ![t].old = prog_array,
                                             ![t].new = a,
                                             ![t].ret = cp.ret]
                     /\ arrays' = IF cp.ret = 0
                                  THEN [arrays EXCEPT ![a] =
                                           [st |-> "live", progs |-> cp.progs]]
                                  ELSE arrays
    /\ UNCHANGED <<bpf_prog_active, stack, lim, prog_array, agp, event_prog,
                   mutex>>

\* perf_event_attach_bpf_prog, lines 510-513: event->prog = prog, publish
\* the new array, free the old one.
AttachAssign(t) ==
    /\ task[t].pc = "assign"
    /\ task[t].op = "attach"
    /\ event_prog' = [event_prog EXCEPT ![task[t].ev] = task[t].prog]
    /\ prog_array' = task[t].new
    /\ LET f == bpf_prog_array_free(task[t].old)
       IN  agp' = f.agp /\ arrays' = f.arrays
    /\ task' = [task EXCEPT ![t].pc = "unlock"]
    /\ UNCHANGED <<bpf_prog_active, stack, lim, mutex>>

\* perf_event_detach_bpf_prog, lines 528-536 and 542-543: an event without
\* a program is left alone; otherwise copy the installed array without the
\* event's program. If the copy fails the program is deleted from the
\* installed array in place, and event->prog is cleared.
DetachCopy(t) ==
    /\ task[t].pc = "locked"
    /\ task[t].op = "detach"
    /\ IF event_prog[task[t].ev] = NoProg
       THEN /\ task' = [task EXCEPT ![t].pc = "unlock"]
            /\ UNCHANGED <<arrays, event_prog>>
       ELSE LET prog == event_prog[task[t].ev]
                sole == prog_array # 0 /\ arrays[prog_array].progs = <<prog>>
            IN  \E cp \in bpf_prog_array_copy(prog_array,
                                            Excluded(task[t].ev), NoProg) :
                  IF CopyFailed(cp.ret)
                  THEN /\ task' = [task EXCEPT ![t].pc = "unlock",
                                               ![t].prog = prog,
                                               ![t].sole = sole,
                                               ![t].old = prog_array,
                                               ![t].ret = cp.ret]
                       /\ arrays' =
                            IF prog_array = 0 THEN arrays
                            ELSE [arrays EXCEPT ![prog_array].progs =
                                     bpf_prog_array_delete_safe(@, prog)]
                       /\ event_prog' =
                            [event_prog EXCEPT ![task[t].ev] = NoProg]
                  ELSE \E a \in NewArrays(cp) :
                         /\ task' = [task EXCEPT ![t].pc = "assign",
                                                 ![t].prog = prog,
                                                 ![t].sole = sole,
                                                 ![t].old = prog_array,
                                                 ![t].new = a,
                                                 ![t].ret = cp.ret]
                         /\ arrays' =
                              IF cp.ret = 0
                              THEN [arrays EXCEPT ![a] =
                                       [st |-> "live", progs |-> cp.progs]]
                              ELSE arrays
                         /\ UNCHANGED event_prog
    /\ UNCHANGED <<bpf_prog_active, stack, lim, prog_array, agp, mutex>>

\* perf_event_detach_bpf_prog, lines 537-543: publish the new array, free
\* the old one, bpf_prog_put(event->prog), event->prog = NULL.
DetachAssign(t) ==
    /\ task[t].pc = "assign"
    /\ task[t].op = "detach"
    /\ prog_array' = task[t].new
    /\ LET f == bpf_prog_array_free(task[t].old)
       IN  agp' = f.agp /\ arrays' = f.arrays
    /\ event_prog' = [event_prog EXCEPT ![task[t].ev] = NoProg]
    /\ task' = [task EXCEPT ![t].pc = "unlock"]
    /\ UNCHANGED <<bpf_prog_active, stack, lim, mutex>>

\* out: mutex_unlock(&bpf_event_mutex); the function returns.
TaskUnlock(t) ==
    /\ task[t].pc = "unlock"
    /\ mutex' = "none"
    /\ task' = [task EXCEPT ![t] = TaskIdle]
    /\ UNCHANGED <<bpf_prog_active, stack, lim, prog_array, arrays, agp,
                   event_prog>>

----------------------------------------------------------------------------
(* bpf_trace_printk, bpf_trace.c:99-183                                     *)

\* The bytes a format is made of here: the characters the function tells
\* apart, "a" for any other letter or digit, "NUL" for the byte 0, "CTL" for
\* a control character and "HI" for a letter outside ASCII.
NUL == "NUL"

\* The pieces formats are put together from.
Tokens ==
    { <<"%", "d">>, <<"%", "l", "d">>, <<"%", "l", "l", "d">>,
      <<"%", "s">>, <<"%", "p">>, <<"%", "l", "s">>, <<"%">>,
      <<" ">>, <<"a">>, <<"CTL">>, <<"HI">>, <<NUL>> }

\* The pieces of one format, the terminator apart.
MaxTokens == 4

RECURSIVE Concat(_)
Concat(ts) == IF ts = <<>> THEN <<>> ELSE Head(ts) \o Concat(Tail(ts))

\* fmt, fmt_size bytes of the program's stack with fmt_size > 0 (lines
\* 109-113): with the terminator at the last byte, or without.
Formats ==
    { Concat(ts) \o e :
        ts \in UNION { [1 .. n -> Tokens] : n \in 0 .. MaxTokens },
        e \in {<<>>, <<NUL>>} } \ {<<>>}

\* <linux/ctype.h> on the bytes above.
isprint(c) == c \in {"%", "l", "d", "u", "x", "s", "p", " ", "a", "HI"}

isspace(c) == c = " "

isascii(c) == c # "HI"

ispunct(c) == c = "%"

\* fmt[i]; "OOB" is a byte past the fmt_size bytes given.
At(f, i) == IF i < Len(f) THEN f[i + 1] ELSE "OOB"

\* The conversions of lines 174-175.
IntConv == {"d", "u", "x"}

PkIdle ==
    [pc |-> "idle", fmt |-> <<>>, fmt_size |-> 0, i |-> 0, fmt_cnt |-> 0,
     str_seen |-> FALSE, mod |-> <<0, 0, 0>>, r |-> <<"r3", "r4", "r5">>,
     unsafe_addr |-> "uninit", buf |-> "uninit", fault |-> FALSE,
     ret |-> 0, rendered |-> FALSE, args |-> <<>>]

\* The test of line 125 letting a fourth specifier through.
TooManyOffByOne(cnt) == cnt > 3

\* if (fmt_cnt >= 3) return -EINVAL, lines 125-126.
TooMany(cnt) == cnt >= 3

\* mod[fmt_cnt]++; mod[] has three elements.
ModInc(m, cnt) == IF cnt + 1 \in DOMAIN m THEN [m EXCEPT ![cnt + 1] = @ + 1]
                  ELSE m

\* The %s argument left as the caller gave it.
NoRedirect(r, cnt) == r

\* switch (fmt_cnt): r3, r4 or r5 = (long) buf, lines 147-160.
Redirect(r, cnt) == IF cnt \in 1 .. 3 THEN [r EXCEPT ![cnt] = "buf"] ELSE r

\* switch (fmt_cnt): unsafe_addr = r3, r4 or r5.
UnsafeAddr(s, cnt) == IF cnt \in 1 .. 3 THEN s.r[cnt] ELSE s.unsafe_addr

\* buf[0] = 0; strncpy_from_unsafe(buf, unsafe_addr, sizeof(buf)), lines
\* 161-164, its result ignored: the string read, cut to the buffer, or the
\* empty string when the read faults.
StrncpyFromUnsafe(fault) == IF fault THEN "" ELSE "str"

\* return -EINVAL.
Reject(s) == [s EXCEPT !.ret = -EINVAL, !.pc = "ret"]

\* Lines 169-176 from fmt[j] on: an optional l, then d, u or x.
IntTail(s, m, j) ==
    LET long == At(s.fmt, j) = "l"
        m2 == IF long THEN ModInc(m, s.fmt_cnt) ELSE m
        j2 == IF long THEN j + 1 ELSE j
    IN IF At(s.fmt, j2) \notin IntConv THEN Reject(s)
       ELSE [s EXCEPT !.mod = m2, !.fmt_cnt = @ + 1, !.i = j2 + 1]

\* Lines 134-166: %p or %s at fmt[j].
PtrOrStr(s, j, fault) ==
    LET nxt == At(s.fmt, j + 1)
        cnt == s.fmt_cnt + 1
        s1 == [s EXCEPT !.mod = ModInc(s.mod, s.fmt_cnt), !.fmt_cnt = cnt,
                        !.i = j + 1]
    IN IF nxt # NUL /\ ~isspace(nxt) /\ ~ispunct(nxt) THEN Reject(s)
       ELSE IF At(s.fmt, j) # "s" THEN s1
       ELSE IF s.str_seen THEN Reject(s)
       ELSE [s1 EXCEPT !.str_seen = TRUE,
                       !.unsafe_addr = UnsafeAddr(s, cnt),
                       !.r = Redirect(s.r, cnt),
                       !.buf = StrncpyFromUnsafe(fault),
                       !.fault = fault]

\* One iteration of the loop of lines 118-177, with its i++.
ScanChar(s, fault) ==
    LET c == At(s.fmt, s.i)
    IN IF (~isprint(c) /\ ~isspace(c)) \/ ~isascii(c) THEN Reject(s)
       ELSE IF c # "%" THEN [s EXCEPT !.i = @ + 1]
       ELSE IF TooMany(s.fmt_cnt) THEN Reject(s)
       ELSE IF At(s.fmt, s.i + 1) = "l"
            THEN IntTail(s, ModInc(s.mod, s.fmt_cnt), s.i + 2)
       ELSE IF At(s.fmt, s.i + 1) \in {"p", "s"}
            THEN PtrOrStr(s, s.i + 1, fault)
       ELSE IntTail(s, s.mod, s.i + 1)

\* mod[k] == 2 ? r : mod[k] == 1 ? (long) r : (u32) r, lines 180-182.
Cast(m) == IF m = 2 THEN "u64" ELSE IF m = 1 THEN "long" ELSE "u32"

\* A BPF program calls bpf_trace_printk(fmt, fmt_size, r3, r4, r5).
PrintkCall ==
    /\ pk.pc = "idle"
    /\ \E f \in Formats :
          pk' = [PkIdle EXCEPT !.pc = "term", !.fmt = f, !.fmt_size = Len(f)]

\* if (fmt[--fmt_size] != 0) return -EINVAL, lines 114-115.
PkTerminator ==
    /\ pk.pc = "term"
    /\ LET s == [pk EXCEPT !.fmt_size = @ - 1]
       IN pk' = IF At(s.fmt, s.fmt_size) # NUL THEN Reject(s)
                ELSE [s EXCEPT !.pc = "scan"]

\* for (i = 0; i < fmt_size; i++): one iteration. The read of the %s
\* argument may fault.
PkScan ==
    /\ pk.pc = "scan"
    /\ pk.i < pk.fmt_size
    /\ \E fault \in BOOLEAN : pk' = ScanChar(pk, fault)

\* return __trace_printk(1, fmt, ...), lines 179-182: the renderer gets the
\* format and the three arguments, each with its width, and returns the
\* number of bytes it wrote, taken here to be the format's length.
PkRender ==
    /\ pk.pc = "scan"
    /\ pk.i >= pk.fmt_size
    /\ pk' = [pk EXCEPT
                !.rendered = TRUE,
                !.args = [k \in 1 .. 3 |->
                            [val |-> pk.r[k], cast |-> Cast(pk.mod[k])]],
                !.ret = pk.fmt_size,
                !.pc = "ret"]

\* The call returns to the program.
PkReturn ==
    /\ pk.pc = "ret"
    /\ pk' = PkIdle

PrintkNext ==
    /\ \/ PrintkCall
       \/ PkTerminator
       \/ PkScan
       \/ PkRender
       \/ PkReturn
    /\ UNCHANGED <<dvars, avars, svars, pe>>

----------------------------------------------------------------------------
(* bpf_perf_event_output, bpf_trace.c:245-279                               *)

EOPNOTSUPP == 95

\* array->map.max_entries: the slots of the perf event array.
perf_max_entries == 2

\* array->ptrs[index] == NULL.
NoFile == [file |-> FALSE, type |-> "none", config |-> "none", oncpu |-> -1]

\* The perf events a slot may hold: attr.type, attr.config and the CPU the
\* event is active on, -1 when on none.
PerfEvents ==
    [file : {TRUE}, type : {"SOFTWARE", "HARDWARE"},
     config : {"BPF_OUTPUT", "OTHER"}, oncpu : Cpus \cup {-1}]

\* The check of line 272 passing on every CPU.
OnAnyCpu(ev, c) == TRUE

\* event->oncpu == smp_processor_id(), line 272.
OnThisCpu(ev, c) == ev.oncpu = c

\* event->attr.type == PERF_TYPE_SOFTWARE and event->attr.config ==
\* PERF_COUNT_SW_BPF_OUTPUT, lines 268-269.
RawOutputKind(ev) == ev.type = "SOFTWARE" /\ ev.config = "BPF_OUTPUT"

PeIdle ==
    [pc |-> "idle", cpu |-> 0, index |-> 0, event |-> NoFile, ret |-> 0,
     sent |-> FALSE]

\* User space installs a perf event in a slot of the array or removes it,
\* or the event of a slot moves to another CPU or off the CPUs.
FdArrayUpdate ==
    \E i \in 0 .. (perf_max_entries - 1) :
        \E ev \in PerfEvents \cup {NoFile} :
            /\ ev # pe.ptrs[i]
            /\ pe' = [pe EXCEPT !.ptrs[i] = ev]

\* bpf_perf_event_output(ctx, map, index, data, size) called by a program on
\* CPU c, lines 245-278: sent is the call of perf_event_output(event, ...).
\* event is what the call read from array->ptrs[index].
PerfEventOutput(c) ==
    /\ pe.call.pc = "idle"
    /\ \E index \in 0 .. perf_max_entries :
         LET c0 == [PeIdle EXCEPT !.pc = "ret", !.cpu = c, !.index = index]
             ev == pe.ptrs[index]
             c1 == [c0 EXCEPT !.event = ev]
         IN pe' = [pe EXCEPT !.call =
              IF index >= perf_max_entries THEN [c0 EXCEPT !.ret = -E2BIG]
              ELSE IF ~ev.file THEN [c1 EXCEPT !.ret = -ENOENT]
              ELSE IF ~RawOutputKind(ev) THEN [c1 EXCEPT !.ret = -EINVAL]
              ELSE IF ~OnThisCpu(ev, c) THEN [c1 EXCEPT !.ret = -EOPNOTSUPP]
              ELSE [c1 EXCEPT !.sent = TRUE, !.ret = 0]]

\* The call returns to the program.
PeReturn ==
    /\ pe.call.pc = "ret"
    /\ pe' = [pe EXCEPT !.call = PeIdle]

PerfOutputNext ==
    /\ \/ FdArrayUpdate
       \/ \E c \in Cpus : PerfEventOutput(c)
       \/ PeReturn
    /\ UNCHANGED <<dvars, avars, svars, pk>>

\* No helper call in flight, and the perf event array empty as created.
HelpersIdle ==
    /\ pk = PkIdle
    /\ pe = [ptrs |-> [i \in 0 .. (perf_max_entries - 1) |-> NoFile],
             call |-> PeIdle]

\* No attach or detach in progress, no event holding a program.
AttachIdle ==
    /\ event_prog = [e \in Events |-> NoProg]
    /\ mutex = "none"
    /\ task = [t \in Tasks |-> TaskIdle]

DispatchInit ==
    /\ bpf_prog_active = [c \in Cpus |-> 0]
    /\ stack = [c \in Cpus |-> <<>>]
    /\ \E pa \in ProgArrays :
          /\ prog_array = IF pa.null THEN 0 ELSE 1
          /\ arrays = [a \in ArrAddrs |->
                          IF a = 1 /\ ~pa.null
                          THEN [st |-> "live", progs |-> pa.progs]
                          ELSE FreeArray]
    /\ agp = [a \in ArrAddrs |-> {}]
    /\ lim = [cpus |-> Cpus, nest |-> MaxNest]
    /\ AttachIdle
    /\ StoreInit
    /\ serial = FALSE
    /\ HelpersIdle

DispatchNext ==
    /\ \E c \in Cpus :
        \/ Fire(c)
        \/ Guard(c)
        \/ Deref(c)
        \/ RunProg(c)
        \/ Exit(c)
        \/ Return(c)
    /\ UNCHANGED <<svars, hvars>>

\* The dispatcher on its own.
SpecDispatch == DispatchInit /\ [][DispatchNext]_vars

DispatchIdle ==
    /\ bpf_prog_active = [c \in Cpus |-> 0]
    /\ stack = [c \in Cpus |-> <<>>]
    /\ prog_array = 0
    /\ arrays = [a \in ArrAddrs |-> FreeArray]
    /\ agp = [a \in ArrAddrs |-> {}]
    /\ lim = [cpus |-> {}, nest |-> 0]
    /\ AttachIdle

\* The map created and in use, no probe firing, callers free to overlap.
ConcurrentInit ==
    DispatchIdle /\ StoreInit /\ serial = FALSE /\ HelpersIdle

\* The stack map under concurrent callers.
SpecStore == ConcurrentInit /\ [][StoreNext]_vars

\* The map created and in use, no probe firing, callers taking turns.
SerialInit ==
    DispatchIdle /\ StoreInit /\ serial = TRUE /\ HelpersIdle

\* The stack map with one call at a time.
SpecSerial == SerialInit /\ [][StoreNext]_vars

\* Nothing else going on: no probe firing, no caller in the stack map.
\* Programs come and go while probes fire on one CPU, one firing at a time.
AttachInit ==
    /\ bpf_prog_active = [c \in Cpus |-> 0]
    /\ stack = [c \in Cpus |-> <<>>]
    /\ prog_array = 0
    /\ arrays = [a \in ArrAddrs |-> FreeArray]
    /\ agp = [a \in ArrAddrs |-> {}]
    /\ lim = [cpus |-> {0}, nest |-> 1]
    /\ AttachIdle
    /\ StoreInit
    /\ serial = FALSE
    /\ HelpersIdle

AttachNext ==
    /\ \/ \E c \in Cpus : Fire(c)
       \/ \E c \in Cpus : Guard(c)
       \/ \E c \in Cpus : Deref(c)
       \/ \E c \in Cpus : RunProg(c)
       \/ \E c \in Cpus : Exit(c)
       \/ \E c \in Cpus : Return(c)
       \/ \E t \in Tasks : TaskLock(t)
       \/ \E t \in Tasks : AttachCopy(t)
       \/ \E t \in Tasks : AttachAssign(t)
       \/ \E t \in Tasks : DetachCopy(t)
       \/ \E t \in Tasks : DetachAssign(t)
       \/ \E t \in Tasks : TaskUnlock(t)
    /\ UNCHANGED <<svars, hvars>>

SpecAttach == AttachInit /\ [][AttachNext]_vars

PrintkInit == ConcurrentInit

\* bpf_trace_printk on its own.
SpecPrintk == PrintkInit /\ [][PrintkNext]_vars

PerfOutputInit == ConcurrentInit

\* bpf_perf_event_output on its own.
SpecPerfOutput == PerfOutputInit /\ [][PerfOutputNext]_vars

----------------------------------------------------------------------------
(* Claims about the dispatcher                                              *)

\* An earlier firing on the same CPU holds the guard below frame k.
GuardHeldBelow(c, k) == \E j \in 1 .. (k - 1) : stack[c][j].marked

\* The firing of frame k has made its guard check.
Checked(f) == ~f.nmi /\ f.pc # "inc"

\* C1, as stated: a firing that began while an earlier firing on its CPU had
\* not yet exited ran no program and returns 0 ("filtered").
C1_AsStated ==
    \A c \in Cpus : \A k \in Frames(c) :
        (stack[c][k].pc = "ret" /\ stack[c][k].busy)
            => (stack[c][k].ret = 0 /\ stack[c][k].ran = 0)

\* C1, amended: on every CPU at most one invocation is admitted to run
\* programs at any time; a firing outside NMI context that makes its guard
\* check while an earlier firing on the same CPU holds the guard (has
\* incremented bpf_prog_active and not yet decremented it) runs no program
\* and returns 0; and a CPU's guard counts the invocations on that CPU alone
\* that hold it, so the guards of different CPUs are independent.
C1_GuardExcludes ==
    \A c \in Cpus :
        /\ Cardinality({k \in Frames(c) :
                           stack[c][k].pc \in {"deref", "run"}}) <= 1
        /\ Cardinality({k \in Frames(c) :
                           stack[c][k].marked /\ stack[c][k].admitted}) <= 1
        /\ \A k \in Frames(c) :
               (Checked(stack[c][k]) /\ GuardHeldBelow(c, k))
                   => /\ stack[c][k].pc \in {"out", "ret"}
                      /\ ~stack[c][k].admitted
                      /\ stack[c][k].ran = 0
                      /\ stack[c][k].ret = 0
        /\ bpf_prog_active[c] =
               Cardinality({k \in Frames(c) : stack[c][k].marked})

\* C1 witness: a nested firing returns 0 having run nothing while the
\* earlier firing on its CPU is running programs, and another CPU is
\* running programs at the same time.
C1_Witness ==
    \E c \in Cpus : \E d \in Cpus \ {c} :
        /\ Len(stack[c]) = 2
        /\ stack[c][1].pc = "run"
        /\ stack[c][2].pc = "ret" /\ ~stack[c][2].nmi
        /\ stack[c][2].ret = 0 /\ stack[c][2].ran = 0
        /\ Len(stack[d]) >= 1 /\ stack[d][1].pc = "run"

\* C2: a firing that marked the guard returns with bpf_prog_active as it
\* found it, on every path; with no firing in flight on a CPU its guard is
\* 0, and a firing that begins on an idle CPU is admitted.
C2_GuardRestored ==
    \A c \in Cpus :
        /\ (Len(stack[c]) > 0 /\ Top(c).pc = "ret")
               => bpf_prog_active[c] = Top(c).found
        /\ stack[c] = <<>> => bpf_prog_active[c] = 0
        /\ (Len(stack[c]) > 0 /\ Checked(stack[c][1]))
               => stack[c][1].admitted

\* C2 witness: a filtered firing returns, the guard back at the value it
\* found, while the firing it interrupted still holds the guard.
C2_Witness ==
    \E c \in Cpus :
        /\ Len(stack[c]) = 2
        /\ stack[c][2].pc = "ret" /\ ~stack[c][2].nmi
        /\ ~stack[c][2].admitted /\ stack[c][2].found = 1
        /\ bpf_prog_active[c] = 1
        /\ stack[c][1].marked

----------------------------------------------------------------------------
(* Claims about the stack trace map                                         *)

\* The call in flight when there is one call at a time.
cur == th[SerialCaller]

\* The frames an entry holds.
TraceOf(e) == SubSeq(e.ip, 1, e.nr)

\* The entry bpf_get_stackid stores for a trace.
EntryOf(ips) == [hash |-> jhash2(ips), nr |-> Len(ips), ip |-> Padded(ips)]

\* A fully initialised entry: 1 .. max_depth frames, zero padding after
\* them, and the digest of exactly those frames.
Complete(e) ==
    /\ e.nr \in 1 .. max_depth
    /\ \A k \in 1 .. max_depth :
           IF k <= e.nr THEN e.ip[k] \in Frame ELSE e.ip[k] = 0
    /\ e.hash = jhash2(TraceOf(e))

\* The call found its bucket holding a different trace.
MetOther(c) == c.snap.nr > 0 /\ TraceOf(c.snap) # c.ips

\* The call captured a trace and compared it with its bucket.
Captured(c) == c.op = "insert" /\ c.ips # <<>>

\* C3: with one call at a time, a second insert of the very trace the call
\* before it inserted (both without BPF_F_FAST_STACK_CMP and without
\* BPF_F_REUSE_STACKID, the first returning an index) returns the same index,
\* allocates nothing and leaves the bucket holding the entry it held.
C3_SameTraceTwice ==
    ( /\ cur.pc = "done" /\ Captured(cur) /\ ~cur.fast /\ ~cur.reuse
      /\ Captured(prev) /\ ~prev.fast /\ ~prev.reuse
      /\ prev.ips = cur.ips /\ prev.ret >= 0 )
    => /\ cur.ret = prev.ret
       /\ ~cur.allocd
       /\ cur.bucket # 0
       /\ buckets[cur.key] = cur.bucket
       /\ Content(cur.bucket) = EntryOf(cur.ips)
       /\ Cardinality({e \in Addrs : heap[e].st # "free"
                                      /\ Content(e) = EntryOf(cur.ips)}) = 1

\* C3 witness: the first call allocated the entry, the second returns its
\* index again.
C3_Witness ==
    /\ cur.pc = "done" /\ Captured(cur) /\ ~cur.fast /\ ~cur.reuse
    /\ Captured(prev) /\ ~prev.fast /\ ~prev.reuse
    /\ prev.ips = cur.ips /\ prev.ret >= 0 /\ prev.allocd
    /\ cur.ret = prev.ret /\ Len(cur.ips) = 1

\* C4, as stated: an insert that finds its bucket holding a different trace
\* fails with -EEXIST without BPF_F_REUSE_STACKID and with it succeeds,
\* returning the index, and a lookup of that index as the next call returns
\* the new trace's frames, zero-padded.
C4_AsStated ==
    /\ (cur.pc = "done" /\ Captured(cur) /\ MetOther(cur))
         => IF cur.reuse THEN cur.ret = cur.key ELSE cur.ret = -EEXIST
    /\ ( /\ cur.pc = "done" /\ cur.op = "lookup"
         /\ Captured(prev) /\ MetOther(prev) /\ prev.reuse
         /\ prev.ret >= 0 /\ cur.key = prev.ret )
         => cur.buf = Padded(prev.ips)

\* The hash-only match of BPF_F_FAST_STACK_CMP applies to the call.
FastMatch(c) == c.fast /\ c.snap.hash = c.hash

\* C4, amended: an insert that finds its bucket holding a different trace,
\* unless BPF_F_FAST_STACK_CMP is set and the stored hash equals the new
\* trace's, fails with -EEXIST without BPF_F_REUSE_STACKID; with it, it
\* either fails with -ENOMEM leaving the bucket as it was, or returns the
\* bucket's index with the bucket holding exactly the new trace's entry, and
\* a lookup of that index as the next call returns the new trace's frames,
\* zero-padded.
C4_Collision ==
    /\ (cur.pc = "done" /\ Captured(cur) /\ MetOther(cur) /\ ~FastMatch(cur))
         => IF cur.reuse
            THEN \/ /\ cur.ret = -ENOMEM
                    /\ buckets[cur.key] = cur.bucket
                    /\ Content(cur.bucket) = cur.snap
                 \/ /\ cur.ret = cur.key
                    /\ cur.ret = BucketOf(jhash2(cur.ips))
                    /\ buckets[cur.key] = cur.new
                    /\ Content(cur.new) = EntryOf(cur.ips)
            ELSE /\ cur.ret = -EEXIST
                 /\ buckets[cur.key] = cur.bucket
                 /\ Content(cur.bucket) = cur.snap
    /\ ( /\ cur.pc = "done" /\ cur.op = "lookup"
         /\ Captured(prev) /\ MetOther(prev) /\ ~FastMatch(prev)
         /\ prev.reuse /\ prev.ret >= 0 /\ cur.key = prev.ret )
         => /\ cur.ret # 0
            /\ cur.buf = Padded(prev.ips)

\* C4 witness: a lookup returns the frames of a one-frame trace that replaced
\* a two-frame trace in its bucket.
C4_Witness ==
    /\ cur.pc = "done" /\ cur.op = "lookup"
    /\ Captured(prev) /\ MetOther(prev) /\ ~FastMatch(prev)
    /\ prev.reuse /\ prev.ret >= 0 /\ cur.key = prev.ret
    /\ prev.snap.nr = 2 /\ Len(prev.ips) = 1
    /\ cur.buf = Padded(prev.ips)

\* C5: no step of an insert without BPF_F_REUSE_STACKID replaces an entry
\* stored in the bucket by a different trace's entry.
C5_NoEvictionWithoutReuse ==
    [][\A t \in Threads :
         ( /\ th[t].op = "insert" /\ th[t].pc = "xchg" /\ th'[t].pc = "done"
           /\ buckets[th[t].key] # 0
           /\ Content(buckets[th[t].key]) # Content(th[t].new) )
         => th[t].reuse]_vars

\* A lookup that was given a pointer into an entry.
Reading(t) ==
    th[t].op = "lookup" /\ th[t].pc \in {"copy", "done"} /\ th[t].bucket # 0

\* C6: what a lookup reads through the pointer it was given is one fully
\* initialised entry, the one its bucket held when it was read, whatever
\* replaces or deletes that entry meanwhile; and every entry in a bucket is
\* fully initialised, as long as callers may be inside the map.
C6_NoTornRead ==
    /\ \A t \in Threads : Reading(t) =>
          /\ Complete(th[t].snap)
          /\ Content(th[t].bucket) = th[t].snap
          /\ \A k \in 1 .. Len(th[t].buf) : th[t].buf[k] = th[t].snap.ip[k]
          /\ th[t].pc = "done" => th[t].buf = th[t].snap.ip
    /\ \A i \in DOMAIN buckets :
          (smap.pc \in {"live", "sync"} /\ buckets[i] # 0)
              => Complete(Content(buckets[i]))

\* C6 witness: a lookup has read the first frame of a one-frame entry that
\* has since been replaced in its bucket by another entry.
C6_Witness ==
    \E t \in Threads :
        /\ th[t].op = "lookup" /\ th[t].pc = "copy" /\ Len(th[t].buf) = 1
        /\ th[t].snap.nr = 1
        /\ buckets[th[t].key] # 0
        /\ buckets[th[t].key] # th[t].bucket
        /\ Content(buckets[th[t].key]) # th[t].snap

\* C7: no caller inside its read-side section holds a pointer to a freed
\* entry, and an entry handed to kfree_rcu waits for every caller that holds
\* a pointer to it.
C7_NoUseAfterFree ==
    \A t \in Threads :
        (th[t].pc # "idle" /\ th[t].bucket # 0)
            => /\ heap[th[t].bucket].st # "free"
               /\ heap[th[t].bucket].st = "rcu" => t \in gp[th[t].bucket]

\* C7 witness: a lookup still reads an entry that a delete has removed from
\* its bucket and handed to kfree_rcu.
C7_Witness ==
    \E t \in Threads :
        /\ th[t].op = "lookup" /\ th[t].pc = "copy"
        /\ heap[th[t].bucket].st = "rcu"
        /\ buckets[th[t].key] = 0

\* C8: a delete of an index past the table returns -E2BIG and changes
\* nothing; of an empty bucket, -ENOENT; of an occupied bucket, 0, the bucket
\* empty and its entry handed to kfree_rcu, and a lookup of that index as the
\* next call returns NULL.
C8_Delete ==
    /\ [](/\ (cur.pc = "done" /\ cur.op = "delete") =>
               IF cur.key >= n_buckets THEN cur.ret = -E2BIG
               ELSE /\ buckets[cur.key] = 0
                    /\ cur.ret = IF cur.old = 0 THEN -ENOENT ELSE 0
                    /\ cur.old # 0 => heap[cur.old].st \in {"rcu", "free"}
          /\ ( /\ cur.pc = "done" /\ cur.op = "lookup"
               /\ prev.op = "delete" /\ prev.ret = 0
               /\ cur.key = prev.key )
               => cur.ret = 0 /\ cur.buf = <<>>)
    /\ [][\A t \in Threads :
            ( /\ th[t].pc = "idle" /\ th'[t].op = "delete"
              /\ (th'[t].key >= n_buckets \/ buckets[th'[t].key] = 0) )
            => UNCHANGED <<buckets, heap, gp>>]_vars

\* C8 witness: a lookup returns NULL for the index whose entry the call
\* before it deleted.
C8_Witness ==
    /\ cur.pc = "done" /\ cur.op = "lookup"
    /\ prev.op = "delete" /\ prev.ret = 0 /\ cur.key = prev.key
    /\ cur.ret = 0

\* C9, as stated: a lookup of an index past the table fails with an
\* out-of-range error.
C9_AsStated ==
    (cur.pc = "done" /\ cur.op = "lookup" /\ cur.key >= n_buckets)
        => cur.ret = -E2BIG

\* C9, amended: a lookup of an index past the table returns NULL, the very
\* result of a lookup of an empty bucket (there is no out-of-range error);
\* for an occupied bucket it returns that bucket's ip[] buffer, all
\* max_depth words of it; and no step of a lookup changes the map.
C9_Lookup ==
    /\ [](/\ (cur.pc = "done" /\ cur.op = "lookup") =>
               IF cur.key >= n_buckets THEN cur.ret = 0 /\ cur.buf = <<>>
               ELSE /\ cur.ret = buckets[cur.key]
                    /\ cur.ret = 0 => cur.buf = <<>>
                    /\ cur.ret # 0 => /\ Len(cur.buf) = max_depth
                                      /\ cur.buf = heap[cur.ret].ip)
    /\ [][\A t \in Threads :
            (th[t].op = "lookup" \/ th'[t].op = "lookup")
                => UNCHANGED <<buckets, heap>>]_vars

\* C9 witness: a lookup has returned the buffer of a one-frame entry.
C9_Witness ==
    /\ cur.pc = "done" /\ cur.op = "lookup" /\ cur.ret # 0
    /\ heap[cur.ret].nr = 1 /\ cur.buf = heap[cur.ret].ip

\* C10: stack_map_free goes past synchronize_rcu() only when no caller is
\* inside a read-side section; it hands to kfree_rcu exactly the entries the
\* buckets hold; and once the table is freed no entry remains allocated.
C10_Teardown ==
    /\ smap.pc \in {"loop", "freed"} => InSection = {}
    /\ smap.pc = "loop" =>
          smap.released = {buckets[i] : i \in 0 .. (smap.i - 1)} \ {0}
    /\ smap.pc = "freed" =>
          /\ smap.released = {buckets[i] : i \in DOMAIN buckets} \ {0}
          /\ \A e \in Addrs : heap[e].st = "free"

\* C10 witness: the table is freed, one of its two buckets having held an
\* entry that teardown released and the other none.
C10_Witness ==
    /\ smap.pc = "freed"
    /\ Cardinality(smap.released) = 1
    /\ \E i \in DOMAIN buckets : buckets[i] = 0

\* The call found its bucket holding an entry with the new trace's hash.
HashHit(c) == c.snap.nr > 0 /\ c.snap.hash = c.hash

\* The call returned its bucket's index, allocated nothing and left the
\* bucket holding the entry it held.
Reused(c) ==
    /\ c.ret = c.key
    /\ ~c.allocd
    /\ buckets[c.key] = c.bucket
    /\ Content(c.bucket) = c.snap

\* C11: an insert that finds its bucket holding an entry whose hash equals
\* the new trace's: with BPF_F_FAST_STACK_CMP it returns the index,
\* allocating nothing and leaving the bucket as it was, whatever the stored
\* depth and frames; without it, it does so exactly when depth and frames
\* are equal, and otherwise the bucket is a conflict: -EEXIST without
\* BPF_F_REUSE_STACKID, a newly allocated entry (or -ENOMEM) with it.
C11_HashMatch ==
    (cur.pc = "done" /\ Captured(cur) /\ HashHit(cur)) =>
        IF cur.fast \/ ~MetOther(cur)
        THEN Reused(cur)
        ELSE IF cur.reuse
             THEN \/ cur.ret = -ENOMEM /\ ~cur.allocd
                  \/ cur.ret = cur.key /\ cur.allocd
             ELSE cur.ret = -EEXIST /\ ~cur.allocd

\* C11 witness: with BPF_F_FAST_STACK_CMP a trace is taken for a stored
\* trace of another depth that has its hash.
C11_Witness ==
    /\ cur.pc = "done" /\ Captured(cur) /\ HashHit(cur)
    /\ cur.fast /\ MetOther(cur) /\ cur.snap.nr # Len(cur.ips)
    /\ Reused(cur)

\* C20: a call of bpf_get_stackid that returns an error (-EINVAL, -EFAULT,
\* -EEXIST or -ENOMEM) returns in the step that began it, and that step
\* leaves every bucket, every entry and every pending kfree_rcu as it was.
C20_ErrorsChangeNothing ==
    [][\A t \in Threads :
         ( /\ th[t].pc # "done"
           /\ th'[t].op = "insert" /\ th'[t].pc = "done" /\ th'[t].ret < 0 )
         => /\ th[t].pc = "idle"
            /\ th'[t].ret \in {-EINVAL, -EFAULT, -EEXIST, -ENOMEM}
            /\ UNCHANGED <<buckets, heap, gp>>]_vars

\* C20 witness: a call has failed with -ENOMEM on an occupied bucket while
\* another call is about to publish its entry.
C20_Witness ==
    \E t \in Threads : \E u \in Threads \ {t} :
        /\ th[t].op = "insert" /\ th[t].pc = "done" /\ th[t].ret = -ENOMEM
        /\ buckets[th[t].key] # 0
        /\ th[u].pc = "xchg"

\* C19, as stated: a firing in NMI context runs no program, leaves the guard
\* alone and returns the result that tells the caller not to record the
\* event.
C19_AsStated ==
    \A c \in Cpus : \A k \in Frames(c) :
        (stack[c][k].nmi /\ stack[c][k].pc = "ret")
            => /\ stack[c][k].ran = 0
               /\ ~stack[c][k].marked
               /\ ~Recorded(stack[c][k].ret)

\* C19, amended: a firing in NMI context goes straight to its return: it
\* runs no program, never marks the guard and leaves bpf_prog_active as it
\* found it, and it returns 1, the result that tells the caller to record
\* the event.
C19_NmiReturnsAtOnce ==
    \A c \in Cpus : \A k \in Frames(c) :
        stack[c][k].nmi
            => /\ stack[c][k].pc = "ret"
               /\ stack[c][k].ran = 0
               /\ ~stack[c][k].marked /\ ~stack[c][k].admitted
               /\ k = Len(stack[c]) => bpf_prog_active[c] = stack[c][k].found
               /\ stack[c][k].ret = 1
               /\ Recorded(stack[c][k].ret)

\* C19 witness: an NMI firing returns 1 on a CPU whose interrupted firing
\* holds the guard and is running programs.
C19_Witness ==
    \E c \in Cpus :
        /\ Len(stack[c]) = 2
        /\ stack[c][1].pc = "run"
        /\ stack[c][2].nmi /\ stack[c][2].pc = "ret" /\ stack[c][2].ret = 1
        /\ bpf_prog_active[c] = 1

\* The table is in use or waiting for its readers: stack_map_free has not
\* begun to release the entries.
InUse == smap.pc \in {"live", "sync"}

\* C21: while the table is in use, every occupied bucket i holds an entry
\* whose hash masked with n_buckets - 1 is i, whose hash is the digest of
\* its first nr frames, whose nr is at most max_depth and whose frames past
\* nr are zero; every index a successful bpf_get_stackid returned is below
\* n_buckets.
C21_StoreInvariants ==
    /\ InUse =>
         \A i \in DOMAIN buckets :
            buckets[i] # 0 =>
               LET e == heap[buckets[i]]
               IN  /\ e.st = "alloc"
                   /\ e.hash % n_buckets = i
                   /\ e.nr <= max_depth
                   /\ e.hash = jhash2(SubSeq(e.ip, 1, e.nr))
                   /\ \A k \in 1 .. max_depth : k > e.nr => e.ip[k] = 0
    /\ \A t \in Threads :
         th[t].op = "insert" /\ th[t].pc = "done" /\ th[t].ret >= 0
         => th[t].ret < n_buckets

\* Every bucket is occupied, one by a trace shorter than max_depth, and an
\* insert has just returned an index.
C21_Witness ==
    /\ InUse
    /\ \A i \in DOMAIN buckets : buckets[i] # 0
    /\ \E i \in DOMAIN buckets : heap[buckets[i]].nr < max_depth
    /\ \E t \in Threads :
         th[t].op = "insert" /\ th[t].pc = "done" /\ th[t].ret >= 0

\* Caller t makes the exchange of delete on a bucket of the table.
Deletes(t) ==
    /\ th[t].pc = "idle"
    /\ th'[t].op = "delete"
    /\ th'[t].key < n_buckets

\* Caller t makes the exchange of insert.
Replaces(t) == th[t].pc = "xchg" /\ th'[t].pc = "done"

\* C22: a delete of an occupied bucket returns 0, empties the bucket and
\* hands the entry, not handed over before, to kfree_rcu; a delete of an
\* empty bucket returns -ENOENT and changes nothing; an insert's exchange
\* hands over the entry it replaces; a bucket is filled by an insert's
\* exchange only; an entry leaves the table only in the step that hands it
\* over and is handed over only in a step that takes it out of the table.
C22_RemovedOnce ==
    [][/\ \A t \in Threads :
             Deletes(t) =>
                LET e == buckets[th'[t].key]
                IN  IF e = 0
                    THEN th'[t].ret = -ENOENT /\ UNCHANGED <<buckets, heap>>
                    ELSE /\ th'[t].ret = 0
                         /\ buckets'[th'[t].key] = 0
                         /\ heap[e].st = "alloc"
                         /\ heap'[e].st \in {"rcu", "free"}
       /\ \A t \in Threads :
             Replaces(t) =>
                LET e == buckets[th[t].key]
                IN  /\ buckets'[th[t].key] = th[t].new
                    /\ e # 0 => /\ heap[e].st = "alloc"
                                /\ heap'[e].st \in {"rcu", "free"}
       /\ \A i \in DOMAIN buckets :
             buckets[i] = 0 /\ buckets'[i] # 0
             => \E t \in Threads : Replaces(t) /\ th[t].key = i
       /\ \A i \in DOMAIN buckets :
             InUse /\ buckets[i] # 0 /\ buckets'[i] # buckets[i]
             => /\ heap[buckets[i]].st = "alloc"
                /\ heap'[buckets[i]].st \in {"rcu", "free"}
       /\ \A e \in Addrs :
             InUse /\ heap[e].st = "alloc" /\ heap'[e].st # "alloc"
             => \E i \in DOMAIN buckets :
                   buckets[i] = e /\ buckets'[i] # e]_vars

\* Two callers deleted the same bucket, nothing inserted in between: one
\* got 0, the other -ENOENT, and the entry waits for its grace period.
C22_Witness ==
    \E t, u \in Threads :
        /\ th[t].op = "delete" /\ th[t].pc = "done" /\ th[t].ret = 0
        /\ th[u].op = "delete" /\ th[u].pc = "done" /\ th[u].ret = -ENOENT
        /\ th[t].key = th[u].key
        /\ buckets[th[t].key] = 0
        /\ \E e \in Addrs : heap[e].st = "rcu"

----------------------------------------------------------------------------
(* Claims about attaching and detaching                                     *)

\* The attached programs the installed array holds.
Installed ==
    IF prog_array = 0 THEN {}
    ELSE ProgsOf(arrays[prog_array].progs) \ {Dummy}

\* The programs the events of the point hold.
AttachedProgs == {event_prog[e] : e \in Events} \ {NoProg}

\* No attached program is in the array twice.
NoDuplicate(progs) ==
    \A i, j \in 1 .. Len(progs) :
        i # j /\ progs[i] = progs[j] => progs[i] = Dummy

\* The firings whose loop has ended, having read an array.
Ended(f) == f.pc \in {"out", "ret"} /\ f.admitted /\ f.arr # 0

\* C12: attaching a program the point's table already holds fails with
\* -EEXIST and leaves the table, and every event's program, as they were;
\* no array holds an attached program twice.
C12_NoDuplicateAttach ==
    /\ [](\A a \in ArrAddrs :
            arrays[a].st # "free" => NoDuplicate(arrays[a].progs))
    /\ [][\A t \in Tasks :
            (/\ task[t].pc = "locked"
             /\ task[t].op = "attach"
             /\ task'[t].pc # "locked"
             /\ task[t].prog \in Installed)
            => /\ task'[t].pc = "unlock"
               /\ task'[t].ret = -EEXIST
               /\ UNCHANGED <<prog_array, arrays, event_prog>>]_vars

\* A program installed through one event was refused for another event of
\* the same point.
C12_Witness ==
    \E t \in Tasks :
        /\ task[t].pc = "unlock"
        /\ task[t].op = "attach"
        /\ task[t].ret = -EEXIST
        /\ task[t].prog \in Installed
        /\ event_prog[task[t].ev] = NoProg

RanSnapshot(f) ==
    /\ Len(f.progs_run) = Len(f.snap)
    /\ \A i \in 1 .. Len(f.snap) : f.progs_run[i] \in {f.snap[i], Dummy}

C15_Serialised ==
    /\ [](Cardinality({t \in Tasks : task[t].pc # "idle"}) <= 1)
    /\ [](Installed = AttachedProgs)
    /\ [](mutex \in Tasks \cup {"none"})
    /\ [][stack' # stack => mutex' = mutex]_vars

\* Two programs are installed, a caller is publishing under the mutex, and
\* a firing is running programs meanwhile.
C15_Witness ==
    \E t \in Tasks : \E c \in Cpus : \E k \in Frames(c) :
        /\ mutex = t
        /\ task[t].pc = "unlock"
        /\ task[t].op = "attach"
        /\ task[t].ret = 0
        /\ Cardinality(Installed) = 2
        /\ stack[c][k].pc = "run"

----------------------------------------------------------------------------
(* Claims about bpf_trace_printk                                            *)

\* The format has its terminator at its last byte.
Terminated(f) == f[Len(f)] = NUL

\* The conversion specifiers of a format: every % begins one.
Specifiers(f) == {k \in 1 .. Len(f) : f[k] = "%"}

\* The string conversions of a format.
StrSpecifiers(f) == {k \in 1 .. (Len(f) - 1) : f[k] = "%" /\ f[k + 1] = "s"}

\* C17: bpf_trace_printk renders nothing before it returns, and renders at
\* all only a format that has its terminator at the last byte, at most 3
\* conversion specifiers and at most one %s; a format with a 4th specifier, a
\* second %s or no terminator at the last byte is rejected with -EINVAL,
\* nothing rendered.
C17_FormatChecked ==
    /\ pk.rendered => /\ pk.pc = "ret" /\ pk.ret >= 0
                      /\ Terminated(pk.fmt)
                      /\ Cardinality(Specifiers(pk.fmt)) <= 3
                      /\ Cardinality(StrSpecifiers(pk.fmt)) <= 1
                      /\ Cardinality(Specifiers(pk.fmt)) = pk.fmt_cnt
    /\ ( /\ pk.pc = "ret"
         /\ \/ ~Terminated(pk.fmt)
            \/ Cardinality(Specifiers(pk.fmt)) >= 4
            \/ Cardinality(StrSpecifiers(pk.fmt)) >= 2 )
         => pk.ret = -EINVAL /\ ~pk.rendered

\* C17 witness: a format with three specifiers, one of them %s, is rendered.
C17_Witness ==
    /\ pk.rendered
    /\ Cardinality(Specifiers(pk.fmt)) = 3
    /\ Cardinality(StrSpecifiers(pk.fmt)) = 1

\* The argument slot of the format's %s: the specifiers up to it.
StrSlot(f) ==
    Cardinality({k \in Specifiers(f) : \E j \in StrSpecifiers(f) : k <= j})

\* C18: when a format with a %s is rendered, the renderer gets in the %s
\* slot the address of the local buffer, never the address the caller gave,
\* which is only read from; the other slots are the caller's; the buffer
\* holds the string read or, when the read faulted, the empty string; and
\* the call returns the renderer's result, no error.
C18_StringRedirected ==
    (pk.rendered /\ StrSpecifiers(pk.fmt) # {}) =>
        /\ pk.str_seen
        /\ \A k \in 1 .. 3 :
              pk.args[k].val = IF k = StrSlot(pk.fmt) THEN "buf"
                               ELSE PkIdle.r[k]
        /\ pk.unsafe_addr = PkIdle.r[StrSlot(pk.fmt)]
        /\ pk.buf = IF pk.fault THEN "" ELSE "str"
        /\ pk.ret >= 0

\* C18 witness: a format whose second specifier is %s is rendered with the
\* empty string after the read of the caller's address faulted.
C18_Witness ==
    /\ pk.rendered /\ pk.str_seen /\ pk.fault
    /\ StrSlot(pk.fmt) = 2
    /\ pk.args[2].val = "buf" /\ pk.buf = ""
    /\ pk.ret >= 0

----------------------------------------------------------------------------
(* Claims about bpf_perf_event_output                                       *)

\* C16: bpf_perf_event_output hands the sample to perf_event_output exactly
\* when the slot holds an event, the event is a software event of config
\* BPF_OUTPUT and the event is active on the calling CPU, and then returns
\* 0; for an empty slot it returns -ENOENT, for an event of another kind
\* -EINVAL, for an event of that kind on another CPU -EOPNOTSUPP, and for an
\* index past the array -E2BIG, nothing handed over.
C16_Emit ==
    pe.call.pc = "ret" =>
        LET c == pe.call
            ev == c.event
            inrange == c.index < perf_max_entries
        IN /\ c.sent <=> ( /\ inrange /\ ev.file
                           /\ ev.type = "SOFTWARE" /\ ev.config = "BPF_OUTPUT"
                           /\ ev.oncpu = c.cpu )
           /\ c.sent <=> c.ret = 0
           /\ ~inrange => c.ret = -E2BIG
           /\ (inrange /\ ~ev.file) => c.ret = -ENOENT
           /\ (ev.file /\ ~(ev.type = "SOFTWARE" /\ ev.config = "BPF_OUTPUT"))
                  => c.ret = -EINVAL
           /\ ( /\ ev.file /\ ev.type = "SOFTWARE" /\ ev.config = "BPF_OUTPUT"
                /\ ev.oncpu # c.cpu ) => c.ret = -EOPNOTSUPP

\* C16 witness: a call on CPU 1 is refused with -EOPNOTSUPP for an event of
\* the right kind that is active on CPU 0, while the other slot holds an
\* event the call could have written to.
C16_Witness ==
    /\ pe.call.pc = "ret" /\ pe.call.cpu = 1
    /\ pe.call.event.file /\ pe.call.event.oncpu = 0
    /\ pe.call.event.type = "SOFTWARE"
    /\ pe.call.event.config = "BPF_OUTPUT"
    /\ pe.call.ret = -EOPNOTSUPP /\ ~pe.call.sent
    /\ \E i \in DOMAIN pe.ptrs :
          i # pe.call.index /\ pe.ptrs[i].file /\ pe.ptrs[i].oncpu = 1

====
